---- MODULE Spec2Model ----
(***************************************************************************)
(* Upset detection of AthletiDB (src/pipeline/normalize.py).               *)
(*                                                                         *)
(* detect_upset is a pure function of its arguments.  The specification    *)
(* Spec draws one argument tuple in Init and applies the function in the   *)
(* action DetectUpset.                                                     *)
(*                                                                         *)
(* Numbers.  point_spread, odds_before_game and upset_magnitude are Python *)
(* floats.  They are modelled in fixed point, in tenths: 8.5 is 85, the    *)
(* threshold 2.0 is 20.  Scores are integers (points); Tenths(n) converts  *)
(* points to tenths where the code adds a score margin to a float.  The    *)
(* spreads drawn are multiples of 0.5, for which the float additions of    *)
(* the code are exact.                                                     *)
(*                                                                         *)
(* Optional values.  Python's None is the empty tuple, a present value v   *)
(* is the one-element tuple <<v>>.  A dict is a function from its keys     *)
(* (strings) to such optional values.                                      *)
(***************************************************************************)
EXTENDS Integers, Sequences, FiniteSets

VARIABLES
    args,      \* the arguments of the call of detect_upset
    result,    \* what the call returned (or raised)
    pc         \* "call" before the call, "done" after it

\* The store of src/pipeline/db.py
VARIABLES
    upsets,        \* the rows of table upsets, in rowid order
    upsets_seq,    \* the largest id AUTOINCREMENT has handed out for upsets
    players,       \* table players: the ids present
    injuries,      \* table injuries: the number of rows
    team_records,  \* table team_records: the (team, league, season) keys present
    db_op,         \* the last call of an operation of db.py
    db_result      \* what that call returned (or raised)

\* Concurrent callers of insert_upset, each on its own connection
VARIABLES
    wpc,           \* per writer: where it stands in insert_upset
    wlock,         \* the writer holding the write lock of the database, or None
    wpending       \* per writer: the row written but not yet committed, or None

\* The ingest loop fetch_upsets of src/main.py
VARIABLES
    f_batches,     \* the lists of games the providers returned, in loop order
    f_b,           \* the batch the loop is in
    f_g,           \* the game of that batch the loop is at
    f_evaluated,   \* the games detect_upset was called on, as <<batch, game>>
    f_found,       \* len(upsets_found)
    f_pc           \* "idle", "loop" or "done"

\* The clock the rate limiter and the cache read (datetime.now()), in seconds
VARIABLES
    now,           \* the current time
    ticks          \* how many times the clock has been advanced

\* One RateLimiter of src/pipeline/utils.py and its callers
VARIABLES
    requests_per_hour,   \* self.requests_per_hour
    burst_limit,         \* self.burst_limit
    request_times,       \* self.request_times: the times recorded, in order
    last_reset,          \* self.last_reset
    rl_op,               \* the last operation on the limiter
    rl_result,           \* what the last can_make_request returned
    t_pc,                \* per caller: where it stands in its call
    http_ok              \* HTTP calls that returned since the last reset

\* One Cache of src/pipeline/utils.py and a function wrapped by cached
VARIABLES
    duration,      \* self.duration
    cache_files,   \* per key: the cache file's content, or None
    last_set,      \* per key: time and value of the last Cache.set, or None
    c_op,          \* the last operation on the cache
    c_result,      \* what it returned
    fn_calls       \* how many times the wrapped function was invoked

classifierVars == <<args, result, pc>>
clockVars == <<now, ticks>>
limiterVars == <<requests_per_hour, burst_limit, request_times, last_reset,
                 rl_op, rl_result, t_pc, http_ok>>
cacheVars == <<duration, cache_files, last_set, c_op, c_result, fn_calls>>
storeVars == <<upsets, upsets_seq, players, injuries, team_records, db_op, db_result>>
writerVars == <<wpc, wlock, wpending>>
fetchVars == <<f_batches, f_b, f_g, f_evaluated, f_found, f_pc>>

vars == <<classifierVars, storeVars, writerVars, fetchVars, clockVars,
         limiterVars, cacheVars>>

----------------------------------------------------------------------------
(* Bounds of the model *)

MaxScore == 4       \* scores range over -1 .. MaxScore
MaxSpread == 2      \* spreads range over -MaxSpread/2 .. MaxSpread/2 points
MaxOdds == 5        \* odds range over 1.0 .. 1.0 + MaxOdds/2
NumWriters == 2     \* concurrent callers of insert_upset
MaxGames == 2       \* games in the list a provider returns
NumThreads == 2     \* callers that share one RateLimiter
MaxTicks == 4       \* advances of the clock
MaxPerHour == 3     \* requests_per_hour ranges over 0 .. MaxPerHour
MaxBurst == 2       \* burst_limit ranges over 0 .. MaxBurst
MaxRecorded == 4    \* entries of request_times
MaxTime == 3700     \* the time up to which a waiting caller is followed
MaxCalls == 3       \* invocations of the function wrapped by cached

----------------------------------------------------------------------------
(* Python values *)

None == <<>>
Some(v) == <<v>>
Val(o) == o[1]

Tenths(n) == n * 10

Abs(x) == IF x < 0 THEN 0 - x ELSE x
Max(x, y) == IF x >= y THEN x ELSE y
Min(x, y) == IF x <= y THEN x ELSE y

EmptyDict == [k \in {} |-> None]

\* dict.get(key): the value under key, None when the key is absent
Get(d, key) == IF key \in DOMAIN d THEN d[key] ELSE None

\* truth value of an optional dict: None and {} are falsy
TruthyDict(od) == od # None /\ DOMAIN Val(od) # {}

\* truth value of an optional bool: None and False are falsy
TruthyFlag(ob) == ob # None /\ Val(ob) = TRUE

----------------------------------------------------------------------------
(* Inputs *)

Leagues == {"NBA"}
Teams == {"", "Lakers", "Warriors"}
Scores == (0 - 1) .. MaxScore
Spreads == {None} \cup {Some(5 * k) : k \in (0 - MaxSpread) .. MaxSpread}
OddsValues == {None} \cup {Some(10 + 5 * k) : k \in 0 .. MaxOdds}

LeagueConfigs == {None, Some(EmptyDict), Some([close_game_threshold |-> Some(3)])}

Contexts ==
    { None,
      Some(EmptyDict),
      Some([venue |-> Some("Arena"), game_status |-> None]),
      Some([historical_context |-> Some(FALSE), weather |-> Some("Rain")]),
      Some([historical_context |-> Some(TRUE)]),
      Some([historical_context |-> Some(TRUE), weather |-> Some("Snow"),
            attendance |-> Some(18000), tv_network |-> Some("ESPN"),
            game_quarter |-> Some("Q4"), time_remaining |-> Some("0:03")]) }

Args ==
    [ league : Leagues,
      home_team : Teams,
      away_team : Teams,
      home_score : Scores,
      away_score : Scores,
      point_spread : Spreads,
      odds_before_game : OddsValues,
      league_config : LeagueConfigs,
      additional_context : Contexts ]

----------------------------------------------------------------------------
(* Program constants of detect_upset, in the units of the model *)

OddsThreshold == 20          \* 2.0: odds above it mark a non-favorite
CloseGameDiff == 3           \* a game within 3 points is a close game
PerformanceBase == 50        \* 5.0 - score_diff
HistoricalMagnitude == 30    \* 3.0

valid_types == {"point_spread", "odds", "performance", "historical"}

----------------------------------------------------------------------------
(* detect_upset: winner and loser *)

winner(a) == IF a.home_score > a.away_score THEN a.home_team ELSE a.away_team
loser(a) == IF a.home_score > a.away_score THEN a.away_team ELSE a.home_team
winner_score(a) == Max(a.home_score, a.away_score)
loser_score(a) == Min(a.home_score, a.away_score)

\* upset_detected, upset_type, upset_reason, upset_magnitude before any rule
InitialVerdict ==
    [ upset_detected |-> FALSE,
      upset_type |-> None,
      upset_reason |-> None,
      upset_magnitude |-> 0 ]

\* An f-string of the code: its fixed text, the team names it interpolates
\* and the number it interpolates.
Reason(text, teams, value) == [text |-> text, teams |-> teams, value |-> value]

----------------------------------------------------------------------------
(* Rule 1: point spread *)

\* variant: a spread of 0 counted as "home favored"
HomeFavored_Ge(a) == Val(a.point_spread) >= 0

HomeFavored(a) == Val(a.point_spread) > 0

\* variant: a tie counted as an away win
AwayWon_OrTie(a) == a.home_score <= a.away_score

AwayWon(a) == a.home_score < a.away_score

HomeWon(a) == a.home_score > a.away_score

AwayUpsetMagnitude(a) ==
    Abs(Val(a.point_spread)) + Tenths(a.away_score - a.home_score)

\* variant: abs() dropped from the spread
HomeUpsetMagnitude_NoAbs(a) ==
    Val(a.point_spread) + Tenths(a.home_score - a.away_score)

HomeUpsetMagnitude(a) ==
    Abs(Val(a.point_spread)) + Tenths(a.home_score - a.away_score)

CheckPointSpread(a, v) ==
    IF a.point_spread # None
    THEN IF HomeFavored(a)
         THEN IF AwayWon(a)
              THEN [ upset_detected |-> TRUE,
                     upset_type |-> Some("point_spread"),
                     upset_reason |->
                         Some(Reason("Away team {} beat favored home team {} by {} points",
                                     <<a.away_team, a.home_team>>,
                                     Val(a.point_spread)
                                         + Tenths(a.away_score - a.home_score))),
                     upset_magnitude |-> AwayUpsetMagnitude(a) ]
              ELSE v
         ELSE IF HomeWon(a)
              THEN [ upset_detected |-> TRUE,
                     upset_type |-> Some("point_spread"),
                     upset_reason |->
                         Some(Reason("Home team {} beat favored away team {} by {} points",
                                     <<a.home_team, a.away_team>>,
                                     Abs(Val(a.point_spread))
                                         + Tenths(a.home_score - a.away_score))),
                     upset_magnitude |-> HomeUpsetMagnitude(a) ]
              ELSE v
    ELSE v

----------------------------------------------------------------------------
(* Rule 2: odds *)

\* variant: the threshold itself counted as an upset
OddsAboveThreshold_Ge(a) ==
    a.odds_before_game # None /\ Val(a.odds_before_game) >= OddsThreshold

OddsAboveThreshold(a) ==
    a.odds_before_game # None /\ Val(a.odds_before_game) > OddsThreshold

\* variant: the magnitude overwritten instead of accumulated by max
CheckOdds_Overwrite(a, v) ==
    IF OddsAboveThreshold(a)
    THEN [ upset_detected |-> TRUE,
           upset_type |-> IF v.upset_type = None THEN Some("odds") ELSE v.upset_type,
           upset_reason |->
               Some(Reason("{} won with {} odds", <<winner(a)>>,
                           Val(a.odds_before_game))),
           upset_magnitude |-> Val(a.odds_before_game) ]
    ELSE v

CheckOdds(a, v) ==
    IF OddsAboveThreshold(a)
    THEN [ upset_detected |-> TRUE,
           upset_type |-> IF v.upset_type = None THEN Some("odds") ELSE v.upset_type,
           upset_reason |->
               \* "{odds_before_game:.1f}": odds are kept in tenths
               Some(Reason("{} won with {} odds", <<winner(a)>>,
                           Val(a.odds_before_game))),
           upset_magnitude |-> Max(v.upset_magnitude, Val(a.odds_before_game)) ]
    ELSE v

----------------------------------------------------------------------------
(* Rule 3: performance (close game) *)

\* variant: "is not None" instead of truthiness
PerformanceEvaluated_NotNone(a) == a.league_config # None

PerformanceEvaluated(a) == TruthyDict(a.league_config)

score_diff(a) == Abs(winner_score(a) - loser_score(a))

\* variant: strict comparison
CloseGame_Strict(a) == score_diff(a) < CloseGameDiff

CloseGame(a) == score_diff(a) <= CloseGameDiff

\* variant: the reason kept when an earlier rule has set one
CheckPerformance_KeepReason(a, v) ==
    IF PerformanceEvaluated(a) /\ CloseGame(a)
    THEN [ upset_detected |-> TRUE,
           upset_type |-> IF v.upset_type = None THEN Some("performance")
                                                 ELSE v.upset_type,
           upset_reason |->
               IF v.upset_reason = None
               THEN Some(Reason("Close game with {} point differential", <<>>,
                                score_diff(a)))
               ELSE v.upset_reason,
           upset_magnitude |->
               Max(v.upset_magnitude, PerformanceBase - Tenths(score_diff(a))) ]
    ELSE v

CheckPerformance(a, v) ==
    IF PerformanceEvaluated(a) /\ CloseGame(a)
    THEN [ upset_detected |-> TRUE,
           upset_type |-> IF v.upset_type = None THEN Some("performance")
                                                 ELSE v.upset_type,
           upset_reason |->
               Some(Reason("Close game with {} point differential", <<>>,
                           score_diff(a))),
           upset_magnitude |->
               Max(v.upset_magnitude, PerformanceBase - Tenths(score_diff(a))) ]
    ELSE v

----------------------------------------------------------------------------
(* Rule 4: historical context *)

\* variant: any truthy additional_context counted as historical context
HistoricalContext_AnyContext(a) == TruthyDict(a.additional_context)

HistoricalContext(a) ==
    /\ TruthyDict(a.additional_context)
    /\ TruthyFlag(Get(Val(a.additional_context), "historical_context"))

CheckHistorical(a, v) ==
    IF HistoricalContext(a)
    THEN [ upset_detected |-> TRUE,
           upset_type |-> IF v.upset_type = None THEN Some("historical")
                                                 ELSE v.upset_type,
           upset_reason |->
               Some(Reason("Historical context suggests this was an upset",
                           <<>>, 0)),
           upset_magnitude |-> Max(v.upset_magnitude, HistoricalMagnitude) ]
    ELSE v

----------------------------------------------------------------------------
(* The Upset model and the result of detect_upset *)

ReturnNone == [kind |-> "None"]
ValidationError == [kind |-> "ValidationError"]
ReturnUpset(u) == [kind |-> "Upset", upset |-> u]
Pending == [kind |-> "Pending"]

\* The optional context copied into upset_data; the defaults of the Upset
\* model (None) where additional_context is falsy
ContextField(a, key) ==
    IF TruthyDict(a.additional_context)
    THEN Get(Val(a.additional_context), key)
    ELSE None

\* A pydantic validator raises (None here) or returns the value the model
\* stores in the field.

\* variant: the validator returns the label in upper case
validate_upset_type_Upper(t) ==
    IF t \notin valid_types
    THEN None
    ELSE Some(CASE t = "point_spread" -> "POINT_SPREAD"
                [] t = "odds" -> "ODDS"
                [] t = "performance" -> "PERFORMANCE"
                [] t = "historical" -> "HISTORICAL")

validate_upset_type(t) == IF t \notin valid_types THEN None ELSE Some(t)

validate_magnitude(m) == IF m < 0 THEN None ELSE Some(m)

\* Upset(**upset_data): the validators of the model reject an upset_type
\* outside valid_types and a negative magnitude
Upset(data) ==
    IF data.upset_type = None \/ validate_upset_type(Val(data.upset_type)) = None
    THEN ValidationError
    ELSE IF validate_magnitude(data.upset_magnitude) = None
    THEN ValidationError
    ELSE ReturnUpset(
             [data EXCEPT
                 !.upset_type = Val(validate_upset_type(Val(data.upset_type))),
                 !.upset_magnitude = Val(validate_magnitude(data.upset_magnitude))])

Verdict(a) ==
    CheckHistorical(a, CheckPerformance(a, CheckOdds(a,
        CheckPointSpread(a, InitialVerdict))))

detect_upset(a) ==
    LET v == Verdict(a)
    IN  IF ~v.upset_detected
        THEN ReturnNone
        ELSE Upset([ league |-> a.league,
                     home_team |-> a.home_team,
                     away_team |-> a.away_team,
                     home_score |-> a.home_score,
                     away_score |-> a.away_score,
                     winner |-> winner(a),
                     loser |-> loser(a),
                     upset_type |-> v.upset_type,
                     upset_reason |-> v.upset_reason,
                     upset_magnitude |-> v.upset_magnitude,
                     point_spread |-> a.point_spread,
                     odds_before_game |-> a.odds_before_game,
                     game_quarter |-> ContextField(a, "game_quarter"),
                     time_remaining |-> ContextField(a, "time_remaining"),
                     weather_conditions |-> ContextField(a, "weather"),
                     attendance |-> ContextField(a, "attendance"),
                     tv_network |-> ContextField(a, "tv_network") ])

----------------------------------------------------------------------------
(* The specification: one call of detect_upset on arbitrary arguments *)

\* the store right after get_engine has created the schema: empty tables
StoreEmpty ==
    /\ upsets = <<>>
    /\ upsets_seq = 0
    /\ players = {}
    /\ injuries = 0
    /\ team_records = {}
    /\ db_op = [op |-> "none"]
    /\ db_result = [kind |-> "Pending"]

Writers == 1 .. NumWriters

\* no call of insert_upset under way
WritersIdle ==
    /\ wpc = [w \in Writers |-> "idle"]
    /\ wlock = None
    /\ wpending = [w \in Writers |-> None]

Threads == 1 .. NumThreads

\* the keys of the cache
Keys == {"games_nba_2026", "games_nfl_2026"}

\* RateLimiter(): the defaults of __init__, nothing recorded, no caller
LimiterIdle ==
    /\ now = 0
    /\ ticks = 0
    /\ requests_per_hour = 1800
    /\ burst_limit = 30
    /\ request_times = <<>>
    /\ last_reset = 0
    /\ rl_op = "none"
    /\ rl_result = TRUE
    /\ t_pc = [t \in Threads |-> "idle"]
    /\ http_ok = 0

\* Cache(): the default duration, no cache file
CacheIdle ==
    /\ duration = 3600
    /\ cache_files = [k \in Keys |-> None]
    /\ last_set = [k \in Keys |-> None]
    /\ c_op = [op |-> "none"]
    /\ c_result = None
    /\ fn_calls = 0

\* fetch_upsets not called
FetchIdle ==
    /\ f_batches = <<>>
    /\ f_b = 1
    /\ f_g = 1
    /\ f_evaluated = {}
    /\ f_found = 0
    /\ f_pc = "idle"

Init ==
    /\ args \in Args
    /\ result = Pending
    /\ pc = "call"
    /\ StoreEmpty
    /\ WritersIdle
    /\ LimiterIdle
    /\ CacheIdle
    /\ FetchIdle

DetectUpset ==
    /\ pc = "call"
    /\ result' = detect_upset(args)
    /\ pc' = "done"
    /\ UNCHANGED args
    /\ UNCHANGED <<storeVars, writerVars, fetchVars, clockVars, limiterVars, cacheVars>>

Next == DetectUpset

Spec == Init /\ [][Next]_vars

----------------------------------------------------------------------------
(* The rules as the specification states them, for the properties below *)

Done == pc = "done"
IsUpset == Done /\ result.kind = "Upset"
IsNone == Done /\ result = ReturnNone

SpreadGiven == args.point_spread # None
OddsGiven == args.odds_before_game # None
Spread == Val(args.point_spread)
Odds == Val(args.odds_before_game)
Margin == Abs(args.home_score - args.away_score)
Decisive == args.home_score # args.away_score

SpreadRuleFires ==
    /\ SpreadGiven
    /\ \/ Spread > 0 /\ args.away_score > args.home_score
       \/ Spread <= 0 /\ args.home_score > args.away_score

OddsRuleFires == OddsGiven /\ Odds > 20

LeagueConfigTruthy == args.league_config \notin {None, Some(EmptyDict)}

PerformanceRuleFires == LeagueConfigTruthy /\ Margin <= 3

HistoricalFlag ==
    /\ args.additional_context \notin {None, Some(EmptyDict)}
    /\ "historical_context" \in DOMAIN Val(args.additional_context)
    /\ Val(args.additional_context)["historical_context"] = Some(TRUE)

HistoricalRuleFires == HistoricalFlag

FiredRules ==
    {r \in {"point_spread"} : SpreadRuleFires}
        \cup {r \in {"odds"} : OddsRuleFires}
        \cup {r \in {"performance"} : PerformanceRuleFires}
        \cup {r \in {"historical"} : HistoricalRuleFires}

RuleOrder == <<"point_spread", "odds", "performance", "historical">>

FirstFired ==
    RuleOrder[CHOOSE i \in 1 .. 4 :
                 /\ RuleOrder[i] \in FiredRules
                 /\ \A j \in 1 .. (i - 1) : RuleOrder[j] \notin FiredRules]

Contribution(r) ==
    CASE r = "point_spread" -> Abs(Spread) + Tenths(Margin)
      [] r = "odds" -> Odds
      [] r = "performance" -> 50 - Tenths(Margin)
      [] r = "historical" -> 30

MaxContribution ==
    CHOOSE m \in {Contribution(r) : r \in FiredRules} :
        \A r \in FiredRules : m >= Contribution(r)

----------------------------------------------------------------------------
InvalidInput ==
    \/ args.home_team = args.away_team
    \/ args.home_team = ""
    \/ args.away_team = ""
    \/ args.home_score < 0
    \/ args.away_score < 0

\* distinct non-empty team names and non-negative scores
ValidInput == ~InvalidInput

(* C1: whenever home_score = away_score, detect_upset returns None,        *)
(* whatever the spread, the odds, league_config and additional_context     *)
(* (stated for the calls that meet the precondition on names and scores).  *)
C1_TiePolicy ==
    (Done /\ ValidInput /\ args.home_score = args.away_score) =>
        result = ReturnNone

(* C2: equal team names, an empty team name or a negative score make       *)
(* detect_upset fail with a validation error, never return None or an      *)
(* Upset.                                                                  *)

C2_InputValidation ==
    (Done /\ InvalidInput) => result = ValidationError

(* C3: when at least one rule fires, upset_type is the first rule that     *)
(* fired in the order point_spread, odds, performance, historical, and     *)
(* upset_magnitude is the maximum of the contributions of the rules that   *)
(* fired.                                                                  *)
C3_PriorityAndMax ==
    (Done /\ FiredRules # {}) =>
        /\ result.kind = "Upset"
        /\ result.upset.upset_type = FirstFired
        /\ result.upset.upset_magnitude = MaxContribution

\* spread and odds rule both fired, and the odds are the larger contribution
C3_Witness ==
    /\ IsUpset
    /\ SpreadRuleFires /\ OddsRuleFires
    /\ Odds > Abs(Spread) + Tenths(Margin)
    /\ result.upset.upset_type = "point_spread"
    /\ result.upset.upset_magnitude = Odds

(* C4: with point_spread > 0 and no other rule firing, an Upset is         *)
(* returned exactly when away_score > home_score; it has type              *)
(* point_spread, winner away_team, loser home_team and magnitude           *)
(* point_spread + (away_score - home_score); otherwise None is returned.   *)
C4_HomeFavored ==
    ( /\ Done
      /\ SpreadGiven /\ Spread > 0
      /\ ~OddsRuleFires /\ ~PerformanceRuleFires /\ ~HistoricalRuleFires ) =>
        /\ result.kind = "Upset" <=> args.away_score > args.home_score
        /\ result.kind # "Upset" => result = ReturnNone
        /\ result.kind = "Upset" =>
              /\ result.upset.upset_type = "point_spread"
              /\ result.upset.winner = args.away_team
              /\ result.upset.loser = args.home_team
              /\ result.upset.upset_magnitude
                     = Spread + Tenths(args.away_score - args.home_score)

C4_Witness ==
    /\ IsUpset
    /\ SpreadGiven /\ Spread > 0
    /\ ~OddsRuleFires /\ ~PerformanceRuleFires /\ ~HistoricalRuleFires
    /\ args.away_score > args.home_score
    /\ result.upset.upset_type = "point_spread"

(* C5: with point_spread <= 0 (0 included) and no other rule firing, an    *)
(* Upset is returned exactly when home_score > away_score; it has type     *)
(* point_spread, winner home_team and magnitude                            *)
(* abs(point_spread) + (home_score - away_score); otherwise None.          *)
C5_AwayFavored ==
    ( /\ Done
      /\ SpreadGiven /\ Spread <= 0
      /\ ~OddsRuleFires /\ ~PerformanceRuleFires /\ ~HistoricalRuleFires ) =>
        /\ result.kind = "Upset" <=> args.home_score > args.away_score
        /\ result.kind # "Upset" => result = ReturnNone
        /\ result.kind = "Upset" =>
              /\ result.upset.upset_type = "point_spread"
              /\ result.upset.winner = args.home_team
              /\ result.upset.upset_magnitude
                     = Abs(Spread) + Tenths(args.home_score - args.away_score)

C5_Witness ==
    /\ IsUpset
    /\ SpreadGiven /\ Spread < 0
    /\ ~OddsRuleFires /\ ~PerformanceRuleFires /\ ~HistoricalRuleFires
    /\ args.home_score > args.away_score
    /\ result.upset.upset_type = "point_spread"
    /\ result.upset.winner = args.home_team

(* C6, as claimed: with point_spread = 0 and no other signal, a home win   *)
(* yields None and an away win yields an Upset of type point_spread        *)
(* (stated for the calls that meet the precondition on names and scores).  *)
NoOtherSignal ==
    /\ args.odds_before_game = None
    /\ args.league_config = None
    /\ args.additional_context = None

C6_SignBoundary_Claimed ==
    (Done /\ ValidInput /\ SpreadGiven /\ Spread = 0 /\ NoOtherSignal) =>
        /\ args.home_score > args.away_score => result = ReturnNone
        /\ args.away_score > args.home_score =>
              /\ result.kind = "Upset"
              /\ result.upset.upset_type = "point_spread"

(* C6, amended: with point_spread = 0 and no other signal, a home win of   *)
(* any margin yields an Upset of type point_spread (winner home_team,      *)
(* magnitude the winning margin), and an away win yields None.             *)
C6_SignBoundary ==
    (Done /\ SpreadGiven /\ Spread = 0 /\ NoOtherSignal) =>
        /\ args.home_score > args.away_score =>
              /\ result.kind = "Upset"
              /\ result.upset.upset_type = "point_spread"
              /\ result.upset.winner = args.home_team
              /\ result.upset.upset_magnitude
                     = Tenths(args.home_score - args.away_score)
        /\ args.away_score > args.home_score => result = ReturnNone

C6_Witness ==
    /\ IsUpset
    /\ ValidInput
    /\ SpreadGiven /\ Spread = 0 /\ NoOtherSignal
    /\ args.home_score > args.away_score
    /\ result.upset.upset_type = "point_spread"

(* C7: for a decisive score and any point_spread, odds_before_game > 2.0   *)
(* gives an Upset of magnitude at least the odds; when only the odds rule  *)
(* fires the Upset has type odds and magnitude equal to the odds.  Odds of *)
(* 2.0 or less do not fire the rule: they give no Upset of type odds, and  *)
(* None when no other rule fires.                                          *)
C7_OddsRule ==
    Done =>
        /\ (Decisive /\ OddsGiven /\ Odds > 20) =>
              /\ result.kind = "Upset"
              /\ result.upset.upset_magnitude >= Odds
        /\ ( /\ Decisive /\ OddsGiven /\ Odds > 20
             /\ ~SpreadRuleFires /\ ~PerformanceRuleFires
             /\ ~HistoricalRuleFires ) =>
              /\ result.kind = "Upset"
              /\ result.upset.upset_type = "odds"
              /\ result.upset.upset_magnitude = Odds
        /\ (OddsGiven /\ Odds <= 20) =>
              /\ result.kind = "Upset" => result.upset.upset_type # "odds"
              /\ ( /\ ~SpreadRuleFires /\ ~PerformanceRuleFires
                   /\ ~HistoricalRuleFires ) => result = ReturnNone

\* the favorite respected the spread, and the odds alone made the upset
C7_Witness ==
    /\ IsUpset
    /\ Decisive /\ OddsGiven /\ Odds > 20
    /\ SpreadGiven /\ ~SpreadRuleFires
    /\ ~PerformanceRuleFires /\ ~HistoricalRuleFires
    /\ result.upset.upset_type = "odds"
    /\ result.upset.upset_magnitude = Odds

(* C8: the performance rule is evaluated only with a truthy league_config. *)
(* Then a score differential of at most 3 gives an Upset, of type          *)
(* performance if neither the spread nor the odds rule fired, whose        *)
(* magnitude is at least max(0, 5.0 - differential) and equal to it when   *)
(* no other rule fired; a differential above 3 does not fire the rule.     *)
(* Without a truthy league_config a close game alone gives None.           *)
PerformanceContribution == Max(0, 50 - Tenths(Margin))

C9_HistoricalRule ==
    Done =>
        /\ HistoricalFlag =>
              /\ result.kind = "Upset"
              /\ result.upset.upset_magnitude >= 30
              /\ result.upset.upset_type = "historical" <=>
                     ( /\ ~SpreadRuleFires /\ ~OddsRuleFires
                       /\ ~PerformanceRuleFires )
              /\ (~SpreadRuleFires /\ ~OddsRuleFires /\ ~PerformanceRuleFires) =>
                     result.upset.upset_magnitude = 30
        /\ ~HistoricalFlag =>
              /\ result.kind = "Upset" =>
                     result.upset.upset_type # "historical"
              /\ (~SpreadRuleFires /\ ~OddsRuleFires /\ ~PerformanceRuleFires) =>
                     result = ReturnNone

C9_Witness ==
    /\ IsUpset
    /\ HistoricalFlag
    /\ ~SpreadRuleFires /\ ~OddsRuleFires /\ ~PerformanceRuleFires
    /\ result.upset.upset_type = "historical"
    /\ result.upset.upset_magnitude = 30

(* C10: detect_upset returns None exactly when none of the four rules      *)
(* fires; with point_spread, odds_before_game, league_config and           *)
(* additional_context all absent it returns None for every pair of scores. *)
AllSignalsAbsent ==
    /\ args.point_spread = None
    /\ args.odds_before_game = None
    /\ args.league_config = None
    /\ args.additional_context = None

C11_OutputInvariant ==
    (IsUpset /\ ValidInput) =>
        /\ result.upset.upset_magnitude >= 0
        /\ result.upset.upset_type
               \in {"point_spread", "odds", "performance", "historical"}

\* an Upset for valid input whose magnitude is the smallest a rule gives
C11_Witness ==
    /\ IsUpset /\ ValidInput
    /\ result.upset.upset_type = "performance"
    /\ result.upset.upset_magnitude = 20

(* C24: every Upset returned has a reason, and it is the reason text of    *)
(* the last rule that fired in the order point_spread, odds, performance,  *)
(* historical, while upset_type is that of the first rule that fired.      *)
LastFired ==
    RuleOrder[CHOOSE i \in 1 .. 4 :
                 /\ RuleOrder[i] \in FiredRules
                 /\ \A j \in (i + 1) .. 4 : RuleOrder[j] \notin FiredRules]

ReasonTexts(r) ==
    CASE r = "point_spread" ->
             {"Away team {} beat favored home team {} by {} points",
              "Home team {} beat favored away team {} by {} points"}
      [] r = "odds" -> {"{} won with {} odds"}
      [] r = "performance" -> {"Close game with {} point differential"}
      [] r = "historical" -> {"Historical context suggests this was an upset"}

C24_ReasonLastAssignment ==
    IsUpset =>
        /\ FiredRules # {}
        /\ result.upset.upset_reason # None
        /\ Val(result.upset.upset_reason).text # ""
        /\ Val(result.upset.upset_reason).text \in ReasonTexts(LastFired)
        /\ result.upset.upset_type = FirstFired

\* the spread rule and the odds rule fired and no other: the type is the
\* spread's, the reason the odds'
C24_Witness ==
    /\ IsUpset
    /\ FiredRules = {"point_spread", "odds"}
    /\ result.upset.upset_type = "point_spread"
    /\ Val(result.upset.upset_reason).text = "{} won with {} odds"

(* C25: when additional_context is supplied and an Upset is returned, each *)
(* of venue, weather, attendance, broadcast network, quarter and time      *)
(* remaining given in it appears unchanged in the Upset, whichever rule    *)
(* fired; these fields have no influence on whether an Upset is returned,  *)
(* on its type or its magnitude; point_spread and odds_before_game are     *)
(* echoed when present (the passthrough stated for the calls that meet    *)
(* the precondition on names and scores and have a winner).                *)
ContextKeys ==
    {"venue", "weather", "attendance", "tv_network", "game_quarter",
     "time_remaining"}

\* the field of the Upset that carries a key of additional_context
CarriedAs(k) == IF k = "weather" THEN "weather_conditions" ELSE k

ContextSupplied == args.additional_context \notin {None, Some(EmptyDict)}

\* the arguments with the descriptive keys taken out of additional_context
WithoutDescription ==
    IF args.additional_context = None
    THEN args
    ELSE [args EXCEPT !.additional_context =
             LET ctx == Val(args.additional_context)
             IN  Some([k \in (DOMAIN ctx) \ ContextKeys |-> ctx[k]])]

C25_ContextPassthrough ==
    /\ (IsUpset /\ ValidInput /\ Decisive /\ ContextSupplied) =>
           \A k \in ContextKeys \cap DOMAIN Val(args.additional_context) :
               /\ CarriedAs(k) \in DOMAIN result.upset
               /\ result.upset[CarriedAs(k)] = Val(args.additional_context)[k]
    /\ IsUpset =>
           /\ result.upset.point_spread = args.point_spread
           /\ result.upset.odds_before_game = args.odds_before_game
    /\ Done =>
           LET other == detect_upset(WithoutDescription)
           IN  /\ other.kind = result.kind
               /\ result.kind = "Upset" =>
                      /\ other.upset.upset_type = result.upset.upset_type
                      /\ other.upset.upset_magnitude = result.upset.upset_magnitude

(* C13: in every Upset returned, winner is the team whose score is         *)
(* strictly greater and loser the other team; no Upset has equal scores    *)
(* (stated for the calls that meet the precondition on names and scores).  *)
C13_WinnerLoser ==
    (IsUpset /\ ValidInput) =>
        /\ result.upset.home_score # result.upset.away_score
        /\ {result.upset.winner, result.upset.loser}
               = {args.home_team, args.away_team}
        /\ result.upset.winner = args.home_team =>
               args.home_score > args.away_score
        /\ result.upset.winner = args.away_team =>
               args.away_score > args.home_score

----------------------------------------------------------------------------
(***************************************************************************)
(* The store: table upsets of src/pipeline/db.py and its operations.       *)
(*                                                                         *)
(* A row is a function from the column names to optional values (NULL is   *)
(* None); its id is a plain integer.  game_date and created_at are ISO     *)
(* texts, which SQLite compares as strings; they are modelled by integers  *)
(* with the same order (day number, second).  Magnitudes are in tenths.    *)
(***************************************************************************)

MaxRows == 3        \* insert_upset is called while upsets has fewer rows
MaxStatsRows == 4   \* the same, where only Upset models are inserted
MaxLimit == 2       \* get_recent_upsets is called with limit 0 .. MaxLimit
MaxInjuries == 1    \* insert_injury is called while injuries has fewer rows

Range(f) == {f[i] : i \in DOMAIN f}

\* the column list of insert_upset
cols ==
    << "league", "game_date", "home_team", "away_team", "home_score",
       "away_score", "winner", "loser", "upset_type", "upset_reason",
       "point_spread", "odds_before_game", "upset_magnitude", "game_quarter",
       "time_remaining", "weather_conditions", "attendance", "tv_network",
       "created_at" >>

\* the columns of table upsets declared NOT NULL (id apart)
NotNullCols ==
    { "league", "game_date", "home_team", "away_team", "winner", "loser",
      "upset_type", "created_at" }

\* The dicts handed to insert_upset.  The first four are dumps of Upset
\* models, one per category; the fifth lacks the scores and the magnitude
\* (tests/test_suite.py); the sixth is the record of test_setup.py, whose
\* upset_type is "test"; the last lacks the winner and carries a key that
\* is no column.
UpsetDump(league, day, second, home, away, won, lost, type, magnitude) ==
    [ league |-> Some(league), game_date |-> Some(day),
      home_team |-> Some(home), away_team |-> Some(away),
      home_score |-> Some(IF won = home THEN 3 ELSE 1),
      away_score |-> Some(IF won = home THEN 1 ELSE 3),
      winner |-> Some(won), loser |-> Some(lost),
      upset_type |-> Some(type), upset_reason |-> Some("reason"),
      point_spread |-> None, odds_before_game |-> None,
      upset_magnitude |-> Some(magnitude),
      game_quarter |-> None, time_remaining |-> None,
      weather_conditions |-> None, attendance |-> None, tv_network |-> None,
      created_at |-> Some(second) ]

SampleUpsets ==
    << UpsetDump("NBA", 1, 1, "Lakers", "Warriors", "Warriors", "Lakers",
                 "point_spread", 225),
       UpsetDump("NBA", 1, 1, "Celtics", "Lakers", "Lakers", "Celtics",
                 "odds", 32),
       UpsetDump("NFL", 1, 2, "Patriots", "Jets", "Jets", "Patriots",
                 "performance", 20),
       UpsetDump("NBA", 2, 2, "Warriors", "Celtics", "Warriors", "Celtics",
                 "historical", 30) >>

ModelDumps == Range(SampleUpsets)

RawDicts ==
    { [ league |-> Some("NFL"), game_date |-> Some(1),
        home_team |-> Some("Team A"), away_team |-> Some("Team B"),
        winner |-> Some("Team B"), loser |-> Some("Team A"),
        upset_type |-> Some("point_spread"), created_at |-> Some(1) ],
      [ league |-> Some("TEST"), game_date |-> Some(1),
        home_team |-> Some("Home Team"), away_team |-> Some("Away Team"),
        winner |-> Some("Away Team"), loser |-> Some("Home Team"),
        upset_type |-> Some("test"), upset_magnitude |-> Some(50),
        created_at |-> Some(1) ],
      [ id |-> Some(1), league |-> Some("NBA"), game_date |-> Some(1),
        home_team |-> Some("Lakers"), away_team |-> Some("Celtics"),
        upset_type |-> Some("odds"), upset_magnitude |-> Some(25),
        created_at |-> Some(2) ] }

UpsetDicts == ModelDumps \cup RawDicts

\* the league argument of the reads: None or a league tag
LeagueFilters == {None, Some("NBA"), Some("NFL")}

----------------------------------------------------------------------------
(* insert_upset *)

\* {k: v for k, v in upset_data.items() if k in cols}
filtered_data(upset_data) ==
    [k \in (DOMAIN upset_data) \cap Range(cols) |-> upset_data[k]]

\* the row INSERT builds: the columns named get their value, the others NULL
NewRow(id, data) ==
    [c \in Range(cols) \cup {"id"} |->
        IF c = "id" THEN id ELSE Get(data, c)]

\* the NOT NULL constraints of the schema
ViolatesNotNull(data) == \E c \in NotNullCols : Get(data, c) = None

\* INTEGER PRIMARY KEY AUTOINCREMENT: one more than the largest id ever used
NextId(seq) == seq + 1

\* variant: INSERT OR REPLACE on a key of the game (as upsert_players does on id)
SqlInsert_OrReplace(table, row) ==
    LET same(r) == /\ r["league"] = row["league"]
                   /\ r["game_date"] = row["game_date"]
                   /\ r["home_team"] = row["home_team"]
                   /\ r["away_team"] = row["away_team"]
    IN  SelectSeq(table, LAMBDA r : ~same(r)) \o <<row>>

\* INSERT INTO upsets: a new row after the rows present
SqlInsert(table, row) == Append(table, row)

insert_upset(upset_data) ==
    /\ db_op' = [op |-> "insert_upset", upset_data |-> upset_data]
    /\ LET data == filtered_data(upset_data)
       IN  IF ViolatesNotNull(data)
           THEN /\ db_result' = [kind |-> "IntegrityError"]
                /\ UNCHANGED <<upsets, upsets_seq>>
           ELSE /\ upsets' = SqlInsert(upsets, NewRow(NextId(upsets_seq), data))
                /\ upsets_seq' = NextId(upsets_seq)
                /\ db_result' = [kind |-> "None"]
    /\ UNCHANGED <<players, injuries, team_records>>
    /\ UNCHANGED <<classifierVars, writerVars, fetchVars, clockVars, limiterVars, cacheVars>>

\* insert_upset of any dict, on a table of fewer than MaxRows rows
InsertUpset(upset_data) ==
    /\ Len(upsets) < MaxRows
    /\ insert_upset(upset_data)

\* insert_upset of the dump of an Upset model, on a table of fewer than
\* MaxStatsRows rows
InsertModelDump(upset_data) ==
    /\ Len(upsets) < MaxStatsRows
    /\ insert_upset(upset_data)

----------------------------------------------------------------------------
(* The writes to the other tables *)

PlayerRows == {<<>>, <<"p1">>}
TeamKeys == {<<"Lakers", "NBA", 2024>>}

\* upsert_players: nothing for an empty list, else INSERT OR REPLACE by id
UpsertPlayers(rows) ==
    /\ db_op' = [op |-> "upsert_players", rows |-> rows]
    /\ players' = IF rows = <<>> THEN players ELSE players \cup Range(rows)
    /\ db_result' = [kind |-> "None"]
    /\ UNCHANGED <<upsets, upsets_seq, injuries, team_records>>
    /\ UNCHANGED <<classifierVars, writerVars, fetchVars, clockVars, limiterVars, cacheVars>>

InsertInjury ==
    /\ injuries < MaxInjuries
    /\ db_op' = [op |-> "insert_injury"]
    /\ injuries' = injuries + 1
    /\ db_result' = [kind |-> "None"]
    /\ UNCHANGED <<upsets, upsets_seq, players, team_records>>
    /\ UNCHANGED <<classifierVars, writerVars, fetchVars, clockVars, limiterVars, cacheVars>>

\* upsert_team_record: INSERT ... ON CONFLICT(team, league, season) DO UPDATE
UpsertTeamRecord(key) ==
    /\ db_op' = [op |-> "upsert_team_record", key |-> key]
    /\ team_records' = team_records \cup {key}
    /\ db_result' = [kind |-> "None"]
    /\ UNCHANGED <<upsets, upsets_seq, players, injuries>>
    /\ UNCHANGED <<classifierVars, writerVars, fetchVars, clockVars, limiterVars, cacheVars>>

----------------------------------------------------------------------------
(* get_upset_stats *)

\* "if league:" adds the filter for a truthy league only
LeagueTruthy(league) == league # None /\ Val(league) # ""

\* variant: the league filter never added to the query
MatchesLeague_Ignored(r, league) == TRUE

\* WHERE 1=1 [AND league = :league]
MatchesLeague(r, league) == LeagueTruthy(league) => r["league"] = league

Matching(table, league) == SelectSeq(table, LAMBDA r : MatchesLeague(r, league))

\* COUNT(CASE WHEN upset_type = t THEN 1 END)
CountType(rows, t) == Len(SelectSeq(rows, LAMBDA r : r["upset_type"] = Some(t)))

\* the values of a column that are not NULL, as aggregates see them
NonNull(rows, c) == SelectSeq([i \in DOMAIN rows |-> rows[i][c]], LAMBDA v : v # None)

RECURSIVE SumSeq(_)
SumSeq(vs) == IF vs = <<>> THEN 0 ELSE Val(Head(vs)) + SumSeq(Tail(vs))

RECURSIVE MaxSeq(_)
MaxSeq(vs) ==
    IF Len(vs) = 1 THEN Val(Head(vs)) ELSE Max(Val(Head(vs)), MaxSeq(Tail(vs)))

RECURSIVE Gcd(_, _)
Gcd(x, y) == IF y = 0 THEN x ELSE Gcd(y, x % y)

\* variant: integer division
Quotient_Floor(num, den) == [num |-> num \div den, den |-> 1]

\* a quotient, kept exact: the fraction num/den in lowest terms, den > 0
Quotient(num, den) ==
    LET g == Gcd(Abs(num), den)
    IN  [num |-> num \div g, den |-> den \div g]

\* AVG(column): NULL over no value, else the sum over the number of values
SqlAvg(vs) == IF vs = <<>> THEN None ELSE Some(Quotient(SumSeq(vs), Len(vs)))

\* MAX(column): NULL over no value
SqlMax(vs) == IF vs = <<>> THEN None ELSE Some(MaxSeq(vs))

\* COUNT(DISTINCT column)
CountDistinct(vs) == Cardinality(Range(vs))

\* the one row the aggregate query returns, as a dict
UpsetStats(table, league) ==
    LET rows == Matching(table, league)
        magnitudes == NonNull(rows, "upset_magnitude")
    IN  [ total_upsets |-> Len(rows),
          unique_upset_teams |-> CountDistinct(NonNull(rows, "winner")),
          avg_magnitude |-> SqlAvg(magnitudes),
          max_magnitude |-> SqlMax(magnitudes),
          spread_upsets |-> CountType(rows, "point_spread"),
          odds_upsets |-> CountType(rows, "odds"),
          performance_upsets |-> CountType(rows, "performance"),
          historical_upsets |-> CountType(rows, "historical") ]

GetUpsetStats(league) ==
    /\ db_op' = [op |-> "get_upset_stats", league |-> league]
    /\ db_result' = [kind |-> "dict", stats |-> UpsetStats(upsets, league)]
    /\ UNCHANGED <<upsets, upsets_seq, players, injuries, team_records>>
    /\ UNCHANGED <<classifierVars, writerVars, fetchVars, clockVars, limiterVars, cacheVars>>

----------------------------------------------------------------------------
(* get_recent_upsets *)

\* ORDER BY game_date DESC, created_at DESC: r comes no later than q
NotAfter(r, q) ==
    \/ Val(r["game_date"]) > Val(q["game_date"])
    \/ /\ r["game_date"] = q["game_date"]
       /\ Val(r["created_at"]) >= Val(q["created_at"])

\* The lists ORDER BY ... LIMIT n may return over the rows at the positions
\* in idx: each next row is one that no remaining row precedes.  Rows equal
\* in both sort columns come in whatever order the engine scans them.
RECURSIVE OrderedLimited(_, _, _)
OrderedLimited(rows, idx, n) ==
    IF n = 0 \/ idx = {}
    THEN {<<>>}
    ELSE UNION { { <<rows[i]>> \o rest : rest \in OrderedLimited(rows, idx \ {i}, n - 1) } :
                 i \in {j \in idx : \A k \in idx : NotAfter(rows[j], rows[k])} }

RecentUpsets(table, league, limit) ==
    LET rows == Matching(table, league)
    IN  OrderedLimited(rows, DOMAIN rows, limit)

GetRecentUpsets(league, limit) ==
    /\ db_op' = [op |-> "get_recent_upsets", league |-> league, limit |-> limit]
    /\ \E rows \in RecentUpsets(upsets, league, limit) :
           db_result' = [kind |-> "list", rows |-> rows]
    /\ UNCHANGED <<upsets, upsets_seq, players, injuries, team_records>>
    /\ UNCHANGED <<classifierVars, writerVars, fetchVars, clockVars, limiterVars, cacheVars>>

----------------------------------------------------------------------------
(* The specification of the store: any sequence of operations of db.py on  *)
(* a store that starts empty                                               *)

InitStore ==
    /\ args = CHOOSE a \in Args : TRUE
    /\ result = Pending
    /\ pc = "store"
    /\ StoreEmpty
    /\ WritersIdle
    /\ LimiterIdle
    /\ CacheIdle
    /\ FetchIdle

NextStore ==
    \/ \E d \in UpsetDicts : InsertUpset(d)
    \/ \E l \in LeagueFilters : GetUpsetStats(l)
    \/ \E l \in LeagueFilters : \E n \in 0 .. MaxLimit : GetRecentUpsets(l, n)
    \/ \E rows \in PlayerRows : UpsertPlayers(rows)
    \/ InsertInjury
    \/ \E k \in TeamKeys : UpsertTeamRecord(k)

SpecStore == InitStore /\ [][NextStore]_vars

\* Upset models inserted into an empty store, and the statistics read
InitStats ==
    /\ args = CHOOSE a \in Args : TRUE
    /\ result = Pending
    /\ pc = "stats"
    /\ StoreEmpty
    /\ WritersIdle
    /\ LimiterIdle
    /\ CacheIdle
    /\ FetchIdle

NextStats ==
    \/ \E d \in ModelDumps : InsertModelDump(d)
    \/ \E l \in LeagueFilters : GetUpsetStats(l)

SpecStats == InitStats /\ [][NextStats]_vars

----------------------------------------------------------------------------
(* insert_upset called by several writers at once, each on a connection   *)
(* of its own: engine.begin() opens a transaction, the INSERT takes the    *)
(* write lock of the database file and holds it until the transaction      *)
(* ends, leaving the with block commits.                                   *)

\* the record writer w inserts: the writers' records are distinct
WriterRecord(w) == SampleUpsets[w]

\* with engine.begin() as con: the transaction is open, nothing written yet
Begin(w) ==
    /\ wpc[w] = "idle"
    /\ wpc' = [wpc EXCEPT ![w] = "begun"]
    /\ UNCHANGED <<wlock, wpending>>
    /\ UNCHANGED <<classifierVars, storeVars, fetchVars, clockVars, limiterVars, cacheVars>>

\* con.execute(sql, filtered_data) with the write lock free: the row is
\* written under the lock, its id read from the committed sequence
Execute(w) ==
    /\ wpc[w] = "begun"
    /\ wlock = None
    /\ LET data == filtered_data(WriterRecord(w))
       IN  IF ViolatesNotNull(data)
           THEN /\ wpc' = [wpc EXCEPT ![w] = "failed"]
                /\ UNCHANGED <<wlock, wpending>>
           ELSE /\ wlock' = Some(w)
                /\ wpending' = [wpending EXCEPT
                                   ![w] = Some(NewRow(NextId(upsets_seq), data))]
                /\ wpc' = [wpc EXCEPT ![w] = "executed"]
    /\ UNCHANGED <<classifierVars, storeVars, fetchVars, clockVars, limiterVars, cacheVars>>

\* con.execute with the write lock held by another writer until the busy
\* timeout ends: OperationalError, the with block rolls back, the except
\* clause logs and raises
Busy(w) ==
    /\ wpc[w] = "begun"
    /\ wlock # None
    /\ wpc' = [wpc EXCEPT ![w] = "failed"]
    /\ UNCHANGED <<wlock, wpending>>
    /\ UNCHANGED <<classifierVars, storeVars, fetchVars, clockVars, limiterVars, cacheVars>>

\* variant: with engine.connect() as con, as the reads of db.py open their
\* connection: leaving the block rolls the transaction back, and the call
\* returns
Commit_Rollback(w) ==
    /\ wpc[w] = "executed"
    /\ wlock' = None
    /\ wpending' = [wpending EXCEPT ![w] = None]
    /\ wpc' = [wpc EXCEPT ![w] = "done"]
    /\ UNCHANGED <<classifierVars, storeVars, fetchVars, clockVars, limiterVars, cacheVars>>

\* leaving the with engine.begin() block: COMMIT, the row is in the table,
\* the lock is released, insert_upset returns
Commit(w) ==
    /\ wpc[w] = "executed"
    /\ upsets' = SqlInsert(upsets, Val(wpending[w]))
    /\ upsets_seq' = Val(wpending[w])["id"]
    /\ wlock' = None
    /\ wpending' = [wpending EXCEPT ![w] = None]
    /\ wpc' = [wpc EXCEPT ![w] = "done"]
    /\ UNCHANGED <<players, injuries, team_records, db_op, db_result>>
    /\ UNCHANGED <<classifierVars, fetchVars, clockVars, limiterVars, cacheVars>>

\* other writes of db.py going on between the writers' steps
OtherWrite ==
    /\ wlock = None
    /\ \/ \E rows \in PlayerRows : UpsertPlayers(rows)
       \/ InsertInjury
       \/ \E k \in TeamKeys : UpsertTeamRecord(k)

InitConc ==
    /\ args = CHOOSE a \in Args : TRUE
    /\ result = Pending
    /\ pc = "writers"
    /\ StoreEmpty
    /\ WritersIdle
    /\ LimiterIdle
    /\ CacheIdle
    /\ FetchIdle

NextConc ==
    \/ \E w \in Writers : Begin(w)
    \/ \E w \in Writers : Execute(w)
    \/ \E w \in Writers : Busy(w)
    \/ \E w \in Writers : Commit(w)
    \/ OtherWrite

SpecConc == InitConc /\ [][NextConc]_vars

----------------------------------------------------------------------------
(* fetch_upsets: for each league, the games of TheSportsDB and then the    *)
(* games of the legacy provider are classified one by one, and the upsets  *)
(* found are inserted.                                                     *)

\* a score as a provider delivers it: a JSON number or a JSON string
JsonInt(n) == [t |-> "int", v |-> n]
JsonStr(n) == [t |-> "str", v |-> n]

Game(home, away, hs, as, status) ==
    [ home_team |-> home, away_team |-> away,
      home_score |-> hs, away_score |-> as,
      venue |-> Some("Arena"), game_status |-> Some(status) ]

\* _normalize_game: a score is an int or, when absent or "0", None; the
\* status is final when both scores are there
TsdbGames ==
    { Game(Some("Lakers"), Some("Warriors"), Some(JsonInt(3)), Some(JsonInt(1)), "final"),
      Game(Some("Lakers"), Some("Warriors"), Some(JsonInt(2)), None, "scheduled") }

\* fetch_recent_games of a legacy provider: the scores are the values of the
\* provider's JSON, passed on as they come
LegacyGames ==
    { Game(Some("Lakers"), Some("Warriors"), Some(JsonInt(1)), Some(JsonInt(3)), "Final"),
      Game(Some("Lakers"), Some("Warriors"), Some(JsonInt(3)), Some(JsonInt(0)), "Final"),
      Game(Some("Lakers"), Some("Warriors"), Some(JsonStr(3)), Some(JsonInt(1)), "Final") }

SeqsUpTo(S, n) == UNION {[1 .. k -> S] : k \in 0 .. n}

\* the batches of one call fetch_upsets(engine, "nba"): PROVIDERS["nba"] names
\* thesportsdb and a legacy provider
Batches ==
    { << [provider |-> "thesportsdb", league |-> "nba", games |-> tg],
         [provider |-> "legacy", league |-> "nba", games |-> lg] >> :
        tg \in SeqsUpTo(TsdbGames, MaxGames),
        lg \in SeqsUpTo(LegacyGames, MaxGames) }

\* lg.upper()
Upper(lg) == IF lg = "nba" THEN "NBA" ELSE lg

\* truth value of game.get(k) for a team name and for a score: None, "" and
\* the number 0 are falsy
TruthyName(o) == o # None /\ Val(o) # ""
TruthyScore(o) == o # None /\ Val(o) # JsonInt(0)

\* all(game.get(k) for k in ['home_team', 'away_team', 'home_score',
\* 'away_score'])
AllPresent(game) ==
    /\ TruthyName(game.home_team)
    /\ TruthyName(game.away_team)
    /\ TruthyScore(game.home_score)
    /\ TruthyScore(game.away_score)

\* home_score > away_score in detect_upset: comparing a str with an int
\* raises TypeError
CompareRaises(game) == Val(game.home_score).t # Val(game.away_score).t

\* variant: the league's configuration handed to detect_upset
DetectArgs_WithConfig(batch, game) ==
    [ league |-> Upper(batch.league),
      home_team |-> Val(game.home_team),
      away_team |-> Val(game.away_team),
      home_score |-> Val(game.home_score).v,
      away_score |-> Val(game.away_score).v,
      point_spread |-> None,
      odds_before_game |-> None,
      league_config |-> Some([close_game_threshold |-> Some(3)]),
      additional_context |->
          IF batch.provider = "thesportsdb"
          THEN Some([venue |-> game.venue, game_status |-> game.game_status])
          ELSE None ]

\* the arguments fetch_upsets gives detect_upset: no spread, no odds, no
\* league_config; venue and status as context for a TheSportsDB game
DetectArgs(batch, game) ==
    [ league |-> Upper(batch.league),
      home_team |-> Val(game.home_team),
      away_team |-> Val(game.away_team),
      home_score |-> Val(game.home_score).v,
      away_score |-> Val(game.away_score).v,
      point_spread |-> None,
      odds_before_game |-> None,
      league_config |-> None,
      additional_context |->
          IF batch.provider = "thesportsdb"
          THEN Some([venue |-> game.venue, game_status |-> game.game_status])
          ELSE None ]

\* the day and the second of the call, which detect_upset stamps on a record
Today == 1
Now == 1

\* upset.model_dump(): the fields of the model as a dict
model_dump(u) ==
    [ league |-> Some(u.league), game_date |-> Some(Today),
      home_team |-> Some(u.home_team), away_team |-> Some(u.away_team),
      home_score |-> Some(u.home_score), away_score |-> Some(u.away_score),
      winner |-> Some(u.winner), loser |-> Some(u.loser),
      upset_type |-> Some(u.upset_type), upset_reason |-> u.upset_reason,
      point_spread |-> u.point_spread, odds_before_game |-> u.odds_before_game,
      upset_magnitude |-> Some(u.upset_magnitude),
      game_quarter |-> u.game_quarter, time_remaining |-> u.time_remaining,
      weather_conditions |-> u.weather_conditions,
      attendance |-> u.attendance, tv_network |-> u.tv_network,
      created_at |-> Some(Now) ]

CurrentBatch == f_batches[f_b]
CurrentGame == CurrentBatch.games[f_g]
InLoop == f_pc = "loop" /\ f_b <= Len(f_batches)
AtGame == InLoop /\ f_g <= Len(CurrentBatch.games)

\* what one pass of the loop body does with a game that has all four
\* values: "raise", "upset" or "none"
Outcome(batch, game) ==
    IF CompareRaises(game)
    THEN [kind |-> "raise"]
    ELSE LET r == detect_upset(DetectArgs(batch, game))
         IN  IF r.kind = "ValidationError"
             THEN [kind |-> "raise"]
             ELSE IF r.kind = "None"
             THEN [kind |-> "none"]
             ELSE IF ViolatesNotNull(filtered_data(model_dump(r.upset)))
             THEN [kind |-> "raise"]
             ELSE [kind |-> "upset", upset_data |-> model_dump(r.upset)]

\* variant: the loop body in a try of its own, so that what one game raises
\* ends that game only
AfterRaise_NextGame == <<f_b, f_g + 1>>

\* where the loop goes on after an exception in the loop body: the except
\* clause is outside the for loop, so with the next batch
AfterRaise == <<f_b + 1, 1>>

\* if not all(...): continue
SkipGame ==
    /\ AtGame
    /\ ~AllPresent(CurrentGame)
    /\ f_g' = f_g + 1
    /\ UNCHANGED <<f_batches, f_b, f_evaluated, f_found, f_pc>>
    /\ UNCHANGED <<classifierVars, storeVars, writerVars, clockVars, limiterVars, cacheVars>>

\* the loop body on a game with all four values: detect_upset, and for an
\* upset insert_upset and upsets_found.append
ClassifyGame ==
    /\ AtGame
    /\ AllPresent(CurrentGame)
    /\ f_evaluated' = f_evaluated \cup {<<f_b, f_g>>}
    /\ LET o == Outcome(CurrentBatch, CurrentGame)
       IN  CASE o.kind = "raise" ->
                   /\ f_b' = AfterRaise[1]
                   /\ f_g' = AfterRaise[2]
                   /\ UNCHANGED <<f_found, upsets, upsets_seq>>
             [] o.kind = "none" ->
                   /\ f_g' = f_g + 1
                   /\ UNCHANGED <<f_b, f_found, upsets, upsets_seq>>
             [] o.kind = "upset" ->
                   /\ upsets' = SqlInsert(upsets,
                          NewRow(NextId(upsets_seq), filtered_data(o.upset_data)))
                   /\ upsets_seq' = NextId(upsets_seq)
                   /\ f_found' = f_found + 1
                   /\ f_g' = f_g + 1
                   /\ UNCHANGED f_b
    /\ UNCHANGED <<f_batches, f_pc>>
    /\ UNCHANGED <<players, injuries, team_records, db_op, db_result>>
    /\ UNCHANGED <<classifierVars, writerVars, clockVars, limiterVars, cacheVars>>

\* the for loop over the games ends: on to the legacy provider, or to the
\* next league
NextBatch ==
    /\ InLoop
    /\ f_g > Len(CurrentBatch.games)
    /\ f_b' = f_b + 1
    /\ f_g' = 1
    /\ UNCHANGED <<f_batches, f_evaluated, f_found, f_pc>>
    /\ UNCHANGED <<classifierVars, storeVars, writerVars, clockVars, limiterVars, cacheVars>>

\* the value fetch_upsets returns
FetchResult ==
    IF f_found > 0
    THEN <<f_found, "Detected upsets">>
    ELSE <<0, "No new upsets detected">>

\* the loop over the leagues ends: fetch_upsets returns
FetchReturn ==
    /\ f_pc = "loop"
    /\ f_b > Len(f_batches)
    /\ f_pc' = "done"
    /\ UNCHANGED <<f_batches, f_b, f_g, f_evaluated, f_found>>
    /\ UNCHANGED <<classifierVars, storeVars, writerVars, clockVars, limiterVars, cacheVars>>

InitFetch ==
    /\ args = CHOOSE a \in Args : TRUE
    /\ result = Pending
    /\ pc = "fetch"
    /\ StoreEmpty
    /\ WritersIdle
    /\ LimiterIdle
    /\ CacheIdle
    /\ f_batches \in Batches
    /\ f_b = 1
    /\ f_g = 1
    /\ f_evaluated = {}
    /\ f_found = 0
    /\ f_pc = "loop"

NextFetch ==
    \/ SkipGame
    \/ ClassifyGame
    \/ NextBatch
    \/ FetchReturn

SpecFetch == InitFetch /\ [][NextFetch]_vars

----------------------------------------------------------------------------
(* RateLimiter *)

Minute == 60        \* timedelta(minutes=1), in seconds
Hour == 3600        \* timedelta(hours=1), in seconds

\* the amounts of time that pass between two operations: a second, a second
\* less than a minute, a minute less than an hour
TickSteps == {1, Minute - 1, Hour - Minute}

\* time passes
Tick(d) ==
    /\ ticks < MaxTicks
    /\ now' = now + d
    /\ ticks' = ticks + 1
    /\ rl_op' = "tick"
    /\ UNCHANGED <<requests_per_hour, burst_limit, request_times, last_reset,
                   rl_result, t_pc, http_ok>>
    /\ UNCHANGED <<classifierVars, storeVars, writerVars, fetchVars, cacheVars>>

\* variant: the counter reset when exactly an hour has passed
ResetDue_Ge(t, reset) == t - reset >= Hour

\* now - self.last_reset > timedelta(hours=1)
ResetDue(t, reset) == t - reset > Hour

\* [t for t in self.request_times if now - t < timedelta(minutes=1)]
Recent(times, t) == SelectSeq(times, LAMBDA r : t - r < Minute)

\* variant: last_reset stamped on every call, not only when the hour is over
can_make_request_Restamp(t, times, reset, per_hour, burst) ==
    LET due == ResetDue(t, reset)
        times1 == IF due THEN <<>> ELSE times
    IN  [ request_times |-> times1,
          last_reset |-> t,
          was_reset |-> due,
          ret |-> IF Len(times1) >= per_hour
                  THEN FALSE
                  ELSE IF Len(Recent(times1, t)) >= burst
                  THEN FALSE
                  ELSE TRUE ]

\* can_make_request at time t: the request_times and the last_reset it
\* leaves, and the value it returns
can_make_request(t, times, reset, per_hour, burst) ==
    LET due == ResetDue(t, reset)
        times1 == IF due THEN <<>> ELSE times
        reset1 == IF due THEN t ELSE reset
    IN  [ request_times |-> times1,
          last_reset |-> reset1,
          was_reset |-> due,
          ret |-> IF Len(times1) >= per_hour
                  THEN FALSE
                  ELSE IF Len(Recent(times1, t)) >= burst
                  THEN FALSE
                  ELSE TRUE ]

\* a call of can_make_request
CanMakeRequest ==
    /\ LET r == can_make_request(now, request_times, last_reset,
                                 requests_per_hour, burst_limit)
       IN  /\ request_times' = r.request_times
           /\ last_reset' = r.last_reset
           /\ rl_result' = r.ret
           /\ http_ok' = IF r.was_reset THEN 0 ELSE http_ok
    /\ rl_op' = "can_make_request"
    /\ UNCHANGED <<requests_per_hour, burst_limit, t_pc>>
    /\ UNCHANGED <<clockVars, classifierVars, storeVars, writerVars, fetchVars,
                   cacheVars>>

\* record_request: self.request_times.append(datetime.now())
RecordRequest ==
    /\ Len(request_times) < MaxRecorded
    /\ request_times' = Append(request_times, now)
    /\ rl_op' = "record_request"
    /\ UNCHANGED <<requests_per_hour, burst_limit, last_reset, rl_result, t_pc,
                   http_ok>>
    /\ UNCHANGED <<clockVars, classifierVars, storeVars, writerVars, fetchVars,
                   cacheVars>>

\* RateLimiter(requests_per_hour, burst_limit) at time 0
NewLimiter ==
    /\ now = 0
    /\ ticks = 0
    /\ requests_per_hour \in 0 .. MaxPerHour
    /\ burst_limit \in 0 .. MaxBurst
    /\ request_times = <<>>
    /\ last_reset = 0
    /\ rl_op = "none"
    /\ rl_result = TRUE
    /\ t_pc = [t \in Threads |-> "idle"]
    /\ http_ok = 0

InitLimiter ==
    /\ args = CHOOSE a \in Args : TRUE
    /\ result = Pending
    /\ pc = "limiter"
    /\ StoreEmpty
    /\ WritersIdle
    /\ FetchIdle
    /\ CacheIdle
    /\ NewLimiter

NextLimiter ==
    \/ \E d \in TickSteps : Tick(d)
    \/ CanMakeRequest
    \/ RecordRequest

SpecLimiter == InitLimiter /\ [][NextLimiter]_vars

----------------------------------------------------------------------------
(* rate_limited: callers that share the limiter of an API, each running    *)
(* limiter.wait_if_needed(), limiter.record_request(), func(). Nothing in  *)
(* RateLimiter or in the wrapper makes two of these steps one.             *)

\* a caller enters the wrapper: get_rate_limiter, then wait_if_needed
Call(t) ==
    /\ t_pc[t] = "idle"
    /\ Len(request_times) < MaxRecorded
    /\ t_pc' = [t_pc EXCEPT ![t] = "wait"]
    /\ rl_op' = "call"
    /\ UNCHANGED <<requests_per_hour, burst_limit, request_times, last_reset,
                   rl_result, http_ok>>
    /\ UNCHANGED <<clockVars, classifierVars, storeVars, writerVars, fetchVars,
                   cacheVars>>

\* while not self.can_make_request(): one evaluation of the loop condition
WaitCheck(t) ==
    /\ t_pc[t] = "wait"
    /\ LET r == can_make_request(now, request_times, last_reset,
                                 requests_per_hour, burst_limit)
       IN  /\ request_times' = r.request_times
           /\ last_reset' = r.last_reset
           /\ rl_result' = r.ret
           /\ http_ok' = IF r.was_reset THEN 0 ELSE http_ok
           /\ t_pc' = [t_pc EXCEPT ![t] = IF r.ret THEN "ready" ELSE "sleep"]
    /\ rl_op' = "can_make_request"
    /\ UNCHANGED <<requests_per_hour, burst_limit>>
    /\ UNCHANGED <<clockVars, classifierVars, storeVars, writerVars, fetchVars,
                   cacheVars>>

\* time.sleep(1): the caller is back at the loop condition after d seconds
Sleep(t, d) ==
    /\ t_pc[t] = "sleep"
    /\ ticks < MaxTicks
    /\ now' = now + d
    /\ ticks' = ticks + 1
    /\ t_pc' = [t_pc EXCEPT ![t] = "wait"]
    /\ rl_op' = "sleep"
    /\ UNCHANGED <<requests_per_hour, burst_limit, request_times, last_reset,
                   rl_result, http_ok>>
    /\ UNCHANGED <<classifierVars, storeVars, writerVars, fetchVars, cacheVars>>

\* limiter.record_request()
Record(t) ==
    /\ t_pc[t] = "ready"
    /\ request_times' = Append(request_times, now)
    /\ t_pc' = [t_pc EXCEPT ![t] = "func"]
    /\ rl_op' = "record_request"
    /\ UNCHANGED <<requests_per_hour, burst_limit, last_reset, rl_result,
                   http_ok>>
    /\ UNCHANGED <<clockVars, classifierVars, storeVars, writerVars, fetchVars,
                   cacheVars>>

\* return func(*args, **kwargs)
Func(t) ==
    /\ t_pc[t] = "func"
    /\ t_pc' = [t_pc EXCEPT ![t] = "idle"]
    /\ rl_op' = "func"
    /\ UNCHANGED <<requests_per_hour, burst_limit, request_times, last_reset,
                   rl_result, http_ok>>
    /\ UNCHANGED <<clockVars, classifierVars, storeVars, writerVars, fetchVars,
                   cacheVars>>

NextRateLimited ==
    \/ \E t \in Threads : Call(t)
    \/ \E t \in Threads : WaitCheck(t)
    \/ \E t \in Threads, d \in TickSteps : Sleep(t, d)
    \/ \E t \in Threads : Record(t)
    \/ \E t \in Threads : Func(t)
    \/ \E d \in TickSteps : Tick(d)

SpecRateLimited == InitLimiter /\ [][NextRateLimited]_vars

----------------------------------------------------------------------------
(* TheSportsDBProvider._make_request, for a provider that has an API key:  *)
(* wait_if_needed, then requests.get and raise_for_status, then            *)
(* record_request when these have returned.                                *)

HttpOutcomes == {"ok", "raise"}

\* variant: the request recorded before it is sent, as rate_limited does
HttpCall_RecordFirst(t, outcome) ==
    /\ t_pc[t] = "ready"
    /\ request_times' = Append(request_times, now)
    /\ http_ok' = IF outcome = "ok" THEN http_ok + 1 ELSE http_ok
    /\ rl_op' = IF outcome = "ok" THEN "http_ok" ELSE "http_raise"
    /\ t_pc' = [t_pc EXCEPT ![t] = "idle"]
    /\ UNCHANGED <<requests_per_hour, burst_limit, last_reset, rl_result>>
    /\ UNCHANGED <<clockVars, classifierVars, storeVars, writerVars, fetchVars,
                   cacheVars>>

\* the try block: requests.get and raise_for_status return and the request
\* is recorded, or one of them raises and the except clause returns None
HttpCall(t, outcome) ==
    /\ t_pc[t] = "ready"
    /\ IF outcome = "ok"
       THEN /\ request_times' = Append(request_times, now)
            /\ http_ok' = http_ok + 1
            /\ rl_op' = "http_ok"
       ELSE /\ UNCHANGED <<request_times, http_ok>>
            /\ rl_op' = "http_raise"
    /\ t_pc' = [t_pc EXCEPT ![t] = "idle"]
    /\ UNCHANGED <<requests_per_hour, burst_limit, last_reset, rl_result>>
    /\ UNCHANGED <<clockVars, classifierVars, storeVars, writerVars, fetchVars,
                   cacheVars>>

\* the provider is the one caller of its limiter
NextMakeRequest ==
    \/ Call(1)
    \/ WaitCheck(1)
    \/ \E d \in TickSteps : Sleep(1, d)
    \/ \E o \in HttpOutcomes : HttpCall(1, o)
    \/ \E d \in TickSteps : Tick(d)

SpecMakeRequest == InitLimiter /\ [][NextMakeRequest]_vars

----------------------------------------------------------------------------
(* wait_if_needed of one caller, on a limiter some requests were recorded  *)
(* in, with no other caller meanwhile                                      *)

\* time.sleep(1), then back to the loop condition
SleepSecond(t) ==
    /\ t_pc[t] = "sleep"
    /\ now < MaxTime
    /\ now' = now + 1
    /\ t_pc' = [t_pc EXCEPT ![t] = "wait"]
    /\ rl_op' = "sleep"
    /\ UNCHANGED <<ticks, requests_per_hour, burst_limit, request_times,
                   last_reset, rl_result, http_ok>>
    /\ UNCHANGED <<classifierVars, storeVars, writerVars, fetchVars, cacheVars>>

\* requests recorded before the caller comes
RecordBefore ==
    /\ \A t \in Threads : t_pc[t] = "idle"
    /\ RecordRequest

\* a limiter with both limits at least 1
InitWait ==
    /\ InitLimiter
    /\ requests_per_hour >= 1
    /\ burst_limit >= 1

NextWait ==
    \/ RecordBefore
    \/ Call(1)
    \/ WaitCheck(1)
    \/ SleepSecond(1)

\* the caller runs on: the loop condition is evaluated and the sleep ends
FairWait == WF_vars(WaitCheck(1)) /\ WF_vars(SleepSecond(1))

SpecWait == InitWait /\ [][NextWait]_vars /\ FairWait

----------------------------------------------------------------------------
(* Cache and the cached decorator *)

\* the values a wrapped function returns and the cache stores: None, an
\* empty list, a list of games
PyValues == {None, [list |-> <<>>], [list |-> <<"game">>]}

\* the durations the repository creates a Cache with
Durations == {1, 3600}

\* pickle.dump and pickle.load: the bytes of an object, and the object of
\* the bytes
pickle_dump(obj) == [bytes |-> obj]
pickle_load(file) == file.bytes

\* variant: an entry exactly `duration` seconds old is expired
Expired_Ge(t, timestamp, dur) == t - timestamp >= dur

\* datetime.now() - cached_data['timestamp'] > timedelta(seconds=self.duration)
Expired(t, timestamp, dur) == t - timestamp > dur

\* Cache.get(key) at time t: the value returned and the cache file left
cache_get(files, key, t, dur) ==
    IF files[key] = None
    THEN [ret |-> None, files |-> files]
    ELSE LET cached_data == pickle_load(Val(files[key]))
         IN  IF Expired(t, cached_data.timestamp, dur)
             THEN [ret |-> None, files |-> [files EXCEPT ![key] = None]]
             ELSE [ret |-> cached_data.data, files |-> files]

\* Cache.set(key, value) at time t: the cache file written
cache_set(files, key, value, t) ==
    [files EXCEPT ![key] = Some(pickle_dump([timestamp |-> t, data |-> value]))]

CacheGet(k) ==
    /\ LET r == cache_get(cache_files, k, now, duration)
       IN  /\ c_result' = r.ret
           /\ cache_files' = r.files
    /\ c_op' = [op |-> "get", key |-> k]
    /\ UNCHANGED <<duration, last_set, fn_calls>>
    /\ UNCHANGED <<clockVars, classifierVars, storeVars, writerVars, fetchVars,
                   limiterVars>>

CacheSet(k, v) ==
    /\ cache_files' = cache_set(cache_files, k, v, now)
    /\ last_set' = [last_set EXCEPT ![k] = Some([timestamp |-> now, data |-> v])]
    /\ c_op' = [op |-> "set", key |-> k]
    /\ c_result' = None
    /\ UNCHANGED <<duration, fn_calls>>
    /\ UNCHANGED <<clockVars, classifierVars, storeVars, writerVars, fetchVars,
                   limiterVars>>

\* variant: "if cached_result:" in place of "is not None"
CacheHit_Truthy(cached_result) ==
    cached_result # None /\ cached_result.list # <<>>

\* if cached_result is not None
CacheHit(cached_result) == cached_result # None

\* a call of a function wrapped by cached, with cache key k; r is what the
\* function returns if it is invoked
CachedCall(k, r) ==
    /\ fn_calls < MaxCalls
    /\ LET got == cache_get(cache_files, k, now, duration)
       IN  IF CacheHit(got.ret)
           THEN /\ c_result' = got.ret
                /\ cache_files' = got.files
                /\ c_op' = [op |-> "cached", key |-> k, invoked |-> FALSE]
                /\ UNCHANGED <<last_set, fn_calls>>
           ELSE /\ fn_calls' = fn_calls + 1
                /\ cache_files' = cache_set(got.files, k, r, now)
                /\ last_set' = [last_set EXCEPT
                                    ![k] = Some([timestamp |-> now, data |-> r])]
                /\ c_result' = r
                /\ c_op' = [op |-> "cached", key |-> k, invoked |-> TRUE]
    /\ UNCHANGED duration
    /\ UNCHANGED <<clockVars, classifierVars, storeVars, writerVars, fetchVars,
                   limiterVars>>

\* Cache(dir, duration) on an empty directory
InitCache ==
    /\ args = CHOOSE a \in Args : TRUE
    /\ result = Pending
    /\ pc = "cache"
    /\ StoreEmpty
    /\ WritersIdle
    /\ FetchIdle
    /\ LimiterIdle
    /\ duration \in Durations
    /\ cache_files = [k \in Keys |-> None]
    /\ last_set = [k \in Keys |-> None]
    /\ c_op = [op |-> "none"]
    /\ c_result = None
    /\ fn_calls = 0

\* the cache used directly
NextCache ==
    \/ \E k \in Keys : CacheGet(k)
    \/ \E k \in Keys, v \in PyValues : CacheSet(k, v)
    \/ \E d \in TickSteps : Tick(d)

SpecCache == InitCache /\ [][NextCache]_vars

\* the cache used through the decorator
NextCached ==
    \/ \E k \in Keys, r \in PyValues : CachedCall(k, r)
    \/ \E d \in TickSteps : Tick(d)

SpecCached == InitCache /\ [][NextCached]_vars

----------------------------------------------------------------------------
(* Properties of the store *)

Rows == {upsets[i] : i \in DOMAIN upsets}

InsertSucceeded == db_op.op = "insert_upset" /\ db_result.kind = "None"

(* C12: after any sequence of insert_upset calls, every row of upsets has  *)
(* an upset_type among the four categories and a magnitude that is not     *)
(* negative.                                                               *)
C12_StoreInvariant ==
    \A r \in Rows :
        /\ r["upset_type"]
               \in {Some("point_spread"), Some("odds"), Some("performance"),
                    Some("historical")}
        /\ r["upset_magnitude"] # None => Val(r["upset_magnitude"]) >= 0

(* C14: no operation of db.py removes or changes a row of upsets; a        *)
(* successful insert_upset adds exactly one row, whose id is greater than  *)
(* every id handed out before and whose columns hold the values given; no  *)
(* other call adds a row.                                                  *)
C14_AppendOnly ==
    [][ /\ Len(upsets') >= Len(upsets)
        /\ \A i \in DOMAIN upsets : upsets'[i] = upsets[i]
        /\ IF InsertSucceeded'
           THEN /\ Len(upsets') = Len(upsets) + 1
                /\ LET new == upsets'[Len(upsets')]
                       given == db_op'.upset_data
                   IN  /\ new["id"] > upsets_seq
                       /\ \A r \in Rows : new["id"] > r["id"]
                       /\ \A c \in DOMAIN given :
                              c \in Range(cols) => new[c] = given[c]
           ELSE Len(upsets') = Len(upsets)
      ]_vars

\* three rows inserted, the first two from the same dict, among writes to
\* the other tables
C14_Witness ==
    /\ Len(upsets) = 3
    /\ upsets[1]["id"] < upsets[2]["id"] /\ upsets[2]["id"] < upsets[3]["id"]
    /\ \A c \in Range(cols) : upsets[1][c] = upsets[2][c]
    /\ players # {} /\ injuries > 0 /\ team_records # {}
    /\ InsertSucceeded

StatsRead == db_op.op = "get_upset_stats" /\ db_result.kind = "dict"

\* the positions of the rows a league argument selects, as the claims say it
Selected(league) ==
    IF league = None
    THEN DOMAIN upsets
    ELSE {i \in DOMAIN upsets : upsets[i]["league"] = league}

Magnitude(i) == Val(upsets[i]["upset_magnitude"])

RECURSIVE MagnitudeTotal(_)
MagnitudeTotal(n) == IF n = 0 THEN 0 ELSE Magnitude(n) + MagnitudeTotal(n - 1)

(* C16: after N >= 1 Upset records were inserted into an empty store,      *)
(* get_upset_stats without a league returns total_upsets = N, category     *)
(* counts that sum to N, avg_magnitude equal to the arithmetic mean of the *)
(* N magnitudes and max_magnitude equal to their maximum.                  *)
C16_RoundTrip ==
    (StatsRead /\ db_op.league = None /\ Len(upsets) >= 1) =>
        LET st == db_result.stats
            N == Len(upsets)
        IN  /\ st.total_upsets = N
            /\ st.spread_upsets + st.odds_upsets + st.performance_upsets
                   + st.historical_upsets = N
            /\ st.avg_magnitude # None
            /\ Val(st.avg_magnitude).num * N
                   = MagnitudeTotal(N) * Val(st.avg_magnitude).den
            /\ st.max_magnitude # None
            /\ \E i \in DOMAIN upsets : Magnitude(i) = Val(st.max_magnitude)
            /\ \A i \in DOMAIN upsets : Magnitude(i) <= Val(st.max_magnitude)

\* four records, one of each category, whose mean is not a whole number
C16_Witness ==
    /\ StatsRead /\ db_op.league = None
    /\ Len(upsets) = 4
    /\ db_result.stats.spread_upsets = 1 /\ db_result.stats.odds_upsets = 1
    /\ db_result.stats.performance_upsets = 1
    /\ db_result.stats.historical_upsets = 1
    /\ Val(db_result.stats.avg_magnitude).den = 4

(* C17: get_upset_stats over no matching row (empty store, or a league no  *)
(* row has) returns total_upsets = 0, avg_magnitude = 0, max_magnitude = 0.*)
C17_EmptyAggregation ==
    (StatsRead /\ Selected(db_op.league) = {}) =>
        /\ db_result.stats.total_upsets = 0
        /\ db_result.stats.avg_magnitude = Some([num |-> 0, den |-> 1])
        /\ db_result.stats.max_magnitude = Some(0)

(* C18: get_upset_stats with a league counts exactly the rows of that      *)
(* league (total_upsets their number, unique_upset_teams the number of     *)
(* distinct winners among them); without a league it counts all rows.      *)
C18_LeagueFilter ==
    StatsRead =>
        LET sel == Selected(db_op.league)
        IN  /\ db_result.stats.total_upsets = Cardinality(sel)
            /\ db_result.stats.unique_upset_teams
                   = Cardinality({upsets[i]["winner"] : i \in sel})

\* a league given, rows of that league and of another one in the store
C18_Witness ==
    /\ StatsRead
    /\ db_op.league = Some("NBA")
    /\ db_result.stats.total_upsets = 2
    /\ db_result.stats.unique_upset_teams = 2
    /\ Len(upsets) = 3

RecentRead == db_op.op = "get_recent_upsets" /\ db_result.kind = "list"

\* r is strictly more recent than q in (game_date, created_at)
MoreRecent(r, q) ==
    \/ Val(r["game_date"]) > Val(q["game_date"])
    \/ /\ Val(r["game_date"]) = Val(q["game_date"])
       /\ Val(r["created_at"]) > Val(q["created_at"])

(* C19: get_recent_upsets(league, limit = N) returns min(N, number of      *)
(* matching rows) rows, all matching the league, sorted by game_date and   *)
(* then created_at descending, no matching row left out being more recent  *)
(* than a returned one; and the list is the only one the call can return   *)
(* for the content of the store.                                           *)
C19_RecentUpsets ==
    RecentRead =>
        LET out == db_result.rows
            sel == Selected(db_op.league)
        IN  /\ Len(out) = Min(db_op.limit, Cardinality(sel))
            /\ \A k \in DOMAIN out : \E i \in sel : out[k] = upsets[i]
            /\ \A j, k \in DOMAIN out : j < k => ~MoreRecent(out[k], out[j])
            /\ \A i \in sel :
                   (\A k \in DOMAIN out : out[k] # upsets[i]) =>
                       \A k \in DOMAIN out : ~MoreRecent(upsets[i], out[k])
            /\ \A other \in RecentUpsets(upsets, db_op.league, db_op.limit) :
                   other = out

(* C15: when the writers call insert_upset at the same time with distinct  *)
(* records and every call has returned without error, the table holds      *)
(* each of the records exactly once, every row under an id of its own and  *)
(* with the values its writer gave, whatever the interleaving.             *)
AllReturned == \A w \in Writers : wpc[w] = "done"

HoldsRecord(row, w) ==
    \A c \in Range(cols) : row[c] = Get(WriterRecord(w), c)

C15_ConcurrentInserts ==
    AllReturned =>
        /\ Len(upsets) = NumWriters
        /\ \A w \in Writers :
               Cardinality({i \in DOMAIN upsets : HoldsRecord(upsets[i], w)}) = 1
        /\ \A i, j \in DOMAIN upsets :
               i # j => upsets[i]["id"] # upsets[j]["id"]

\* every writer has returned, and the last writer's row was committed first
C15_Witness ==
    /\ AllReturned
    /\ NumWriters > 1
    /\ HoldsRecord(upsets[1], NumWriters)
    /\ players # {} /\ injuries > 0

(* C20: in fetch_upsets, when classifying or inserting one game of a batch *)
(* raises, the games after it in the same batch (same league, same         *)
(* provider) are still evaluated.                                          *)
GameRaises(b, g) ==
    /\ AllPresent(f_batches[b].games[g])
    /\ Outcome(f_batches[b], f_batches[b].games[g]).kind = "raise"

C20_FailureIsolation ==
    f_pc = "done" =>
        \A b \in DOMAIN f_batches :
            \A g, h \in DOMAIN f_batches[b].games :
                (g < h /\ GameRaises(b, g) /\ <<b, g>> \in f_evaluated
                       /\ AllPresent(f_batches[b].games[h]))
                    => <<b, h>> \in f_evaluated

(* C29 as claimed: for every list of games the providers return,           *)
(* detect_upset returns None on every game given to it, insert_upset is    *)
(* never called, upsets is left unchanged and fetch_upsets returns         *)
(* (0, "No new upsets detected").                                          *)
OutcomeOf(e) == Outcome(f_batches[e[1]], f_batches[e[1]].games[e[2]])

C29_NeverRecords_Claimed ==
    /\ \A e \in f_evaluated : OutcomeOf(e).kind = "none"
    /\ upsets = <<>> /\ upsets_seq = 0 /\ f_found = 0
    /\ f_pc = "done" => FetchResult = <<0, "No new upsets detected">>

(* C29: for every list of games the providers return, detect_upset         *)
(* returns None or raises on every game given to it and never returns an   *)
(* Upset, insert_upset is never called, upsets is left unchanged and       *)
(* fetch_upsets returns (0, "No new upsets detected").                     *)
C29_NeverRecords ==
    /\ \A e \in f_evaluated : OutcomeOf(e).kind \in {"none", "raise"}
    /\ upsets = <<>> /\ upsets_seq = 0 /\ f_found = 0
    /\ f_pc = "done" => FetchResult = <<0, "No new upsets detected">>

\* fetch_upsets has returned after classifying a game of TheSportsDB and two
\* games of the legacy provider
C29_Witness ==
    /\ f_pc = "done"
    /\ <<1, 1>> \in f_evaluated
    /\ {<<2, 1>>, <<2, 2>>} \subseteq f_evaluated
    /\ \A e \in f_evaluated : OutcomeOf(e).kind = "none"
    /\ upsets = <<>>

(* C21: for a limiter with burst_limit B and requests_per_hour >= B,       *)
(* can_make_request returns True while fewer than B requests have been     *)
(* recorded within the last minute (and fewer than requests_per_hour since *)
(* the last reset), and returns False as soon as B requests have been      *)
(* recorded within the last minute.                                        *)
RecordedLastMinute ==
    Cardinality({i \in DOMAIN request_times : now - request_times[i] < 60})

HourPassed == now - last_reset > 3600

C22_HourlyReset_Claimed ==
    [][ rl_op' = "can_make_request" =>
            IF HourPassed
            THEN /\ request_times' = <<>>
                 /\ last_reset' = now
                 /\ rl_result' = TRUE
            ELSE UNCHANGED <<request_times, last_reset>>
      ]_vars

(* C22: for a limiter with requests_per_hour >= 1 and burst_limit >= 1,    *)
(* when more than one hour has passed since last_reset, can_make_request   *)
(* empties request_times, sets last_reset to the current time and returns  *)
(* True, whatever number of requests was recorded; for every limiter, when *)
(* one hour or less has passed it leaves request_times and last_reset      *)
(* unchanged, and when more has passed it empties and resets.              *)
C22_HourlyReset ==
    [][ rl_op' = "can_make_request" =>
            IF HourPassed
            THEN /\ request_times' = <<>>
                 /\ last_reset' = now
                 /\ (requests_per_hour >= 1 /\ burst_limit >= 1) =>
                        rl_result' = TRUE
            ELSE UNCHANGED <<request_times, last_reset>>
      ]_vars

\* a reset has emptied a list of requests that had reached both limits
C22_Witness ==
    /\ rl_op = "can_make_request"
    /\ requests_per_hour = 2 /\ burst_limit = 2
    /\ last_reset = now /\ now > 3600
    /\ request_times = <<>>
    /\ rl_result = TRUE

(* C26: when several threads call functions wrapped by rate_limited on the *)
(* same RateLimiter, in every interleaving the number of recorded requests *)
(* whose timestamps lie within one minute of each other never exceeds      *)
(* burst_limit, and the number recorded since the last reset never exceeds *)
(* requests_per_hour.                                                      *)
WithinMinuteFrom(i) ==
    {j \in DOMAIN request_times :
        /\ request_times[j] >= request_times[i]
        /\ request_times[j] - request_times[i] < 60}

C26_ConcurrentLimit ==
    /\ \A i \in DOMAIN request_times :
           Cardinality(WithinMinuteFrom(i)) <= burst_limit
    /\ Len(request_times) <= requests_per_hour

(* C27: in _make_request a request is recorded only after the HTTP call    *)
(* has returned successfully, and a call that raises leaves request_times  *)
(* unchanged: len(request_times) is the number of successful HTTP calls    *)
(* since the last reset, not the number of calls sent.                     *)
C27_RequestAccounting == Len(request_times) = http_ok

\* an HTTP call has just failed after two that succeeded
C27_Witness ==
    /\ rl_op = "http_raise"
    /\ http_ok = 2
    /\ Len(request_times) = 2

(* C28: for a limiter with burst_limit >= 1 and requests_per_hour >= 1 and *)
(* no other caller recording meanwhile, every call of wait_if_needed       *)
(* eventually returns as time advances.                                    *)
C28_WaitTerminates == (t_pc[1] = "wait") ~> (t_pc[1] = "ready")

\* the caller has waited through the hour: it returns after the reset
C28_Witness ==
    /\ t_pc[1] = "ready"
    /\ now > 3600
    /\ last_reset = now
    /\ request_times = <<>>

(* C23: Cache.get(key) returns the value of the most recent Cache.set of   *)
(* the key as long as no more than duration seconds have passed since that *)
(* set; once more have passed, get returns None and removes the entry, so  *)
(* that later gets return None until the next set; get of a key never set  *)
(* returns None. (A step that leaves the clock alone and has get as the    *)
(* last operation is a call of get.)                                       *)
SetAge(k) == now - Val(last_set[k]).timestamp

C23_CacheRoundTrip ==
    [][ (c_op'.op = "get" /\ now' = now) =>
            LET k == c_op'.key
            IN  IF last_set[k] = None
                THEN c_result' = None
                ELSE IF SetAge(k) <= duration
                THEN c_result' = Val(last_set[k]).data
                ELSE /\ c_result' = None
                     /\ cache_files'[k] = None
      ]_vars

\* a get has just removed an entry that held a list and had expired, with
\* the other key's entry still there
C23_Witness ==
    /\ c_op.op = "get"
    /\ last_set[c_op.key] # None
    /\ Val(last_set[c_op.key]).data = [list |-> <<"game">>]
    /\ SetAge(c_op.key) = duration + 1
    /\ c_result = None
    /\ cache_files[c_op.key] = None
    /\ \E k \in Keys : cache_files[k] # None

(* C30: after a call with cache key k has returned a value other than None *)
(* (an empty list included), every later call with key k within the cache  *)
(* duration returns that value without invoking the wrapped function; a    *)
(* call whose result is None is not served from the cache: the next call   *)
(* with that key invokes the function again.                               *)
C30_CachedDecorator ==
    [][ (c_op'.op = "cached" /\ now' = now) =>
            LET k == c_op'.key
            IN  /\ (/\ last_set[k] # None
                    /\ Val(last_set[k]).data # None
                    /\ SetAge(k) <= duration) =>
                       /\ c_result' = Val(last_set[k]).data
                       /\ fn_calls' = fn_calls
                       /\ c_op'.invoked = FALSE
                /\ (last_set[k] # None /\ Val(last_set[k]).data = None) =>
                       /\ fn_calls' = fn_calls + 1
                       /\ c_op'.invoked = TRUE
      ]_vars

\* a call has been served an empty list from the cache at the end of the
\* duration, after two invocations
C30_Witness ==
    /\ c_op.op = "cached"
    /\ c_op.invoked = FALSE
    /\ c_result = [list |-> <<>>]
    /\ SetAge(c_op.key) = duration
    /\ fn_calls = 2

====
